---- MODULE Spec2Model ----
(***************************************************************************)
(* A model of the zero-shot-replication runner                             *)
(* (src/zero_shot_replication/runner.py): the resume-by-task-id harness    *)
(* loop of the script body and the derivation of the output path.          *)
(*                                                                         *)
(* Text (prompts, completions) is a sequence of tokens; a file name is a   *)
(* sequence of characters; a JSON object is a TLA+ record; the results     *)
(* file is the sequence of the objects of its lines.                       *)
(***************************************************************************)
EXTENDS Integers, Sequences, FiniteSets, TLC

\* ------------------------------------------------------------------ bounds
\* longest dataset drawn by Init
MaxTasks == 2
\* longest results file present before the first run
MaxFile == 2
\* longest VERSION tag drawn by PathInit
MaxVerLen == 3

\* ------------------------------------------------------------- vocabulary
TaskName == <<"t1", "t2", "t3", "t4">>

\* the code-block delimiter (three backquotes) as one token
Fence == "<fence>"

\* what the provider may answer: a fenced block, plain text, text around a block
RawOutputs ==
    { <<Fence, "print(1)", Fence>>, <<"42">>, <<"Sure:", Fence, "f()", Fence, "Done.">> }

Psets == {"human-eval", "leetcode", "leetcode-msft-sparks", "gsm8k", "math"}

VARIABLES
    \* ---- runner script
    pset,               \* args.pset
    dataset,            \* dataset.generator as the sequence it yields
    badPrompt,          \* task_ids for which get_formatted_prompt raises
    fileExists, file,   \* the file at out_path: present?, objects of its lines
    pc,                 \* position of the script
    results,            \* results
    exising_task_ids,   \* exising_task_ids
    i,                  \* index of the task the for loop is at
    prompt, raw_completion, completion, result,   \* locals of the loop body
    \* ---- observations of the current run
    loaded,             \* what load_existing_jsonl returned
    existsAtStart,      \* was the file present when the run started
    prompts,            \* task_ids get_formatted_prompt was called for
    calls,              \* get_completion calls: [task_id, ok, raw, prompt]
    writes,             \* number of write_jsonl calls
    \* ---- observations across runs
    file0,              \* objects of the file before the first run
    run,                \* "first" or "later"
    prevFailed,         \* task_ids whose get_completion raised in the previous run
    everOk,             \* task_ids whose get_completion succeeded in an earlier run
    \* ---- get_output_path
    ppc,                \* "idle", "call" or "returned"
    args,               \* provider, pset, model, temperature, quantization as
                        \* prep_for_file_path returns them; py_interpreter;
                        \* output_file_name
    version,            \* prep_for_file_path(version)
    dirExists,          \* os.path.exists(output_dir)
    out_path            \* the returned path, as its components

runnerVars == <<pset, dataset, badPrompt, fileExists, file, pc, results,
                exising_task_ids, i, prompt, raw_completion, completion, result,
                loaded, existsAtStart, prompts, calls, writes,
                file0, run, prevFailed, everOk>>

pathVars == <<ppc, args, version, dirExists, out_path>>

vars == <<runnerVars, pathVars>>

\* --------------------------------------------------------------- helpers
Range(s) == { s[k] : k \in DOMAIN s }

\* the dict display {**a, **b}: keys of b win
DictMerge(a, b) ==
    [k \in (DOMAIN a) \cup (DOMAIN b) |-> IF k \in DOMAIN b THEN b[k] ELSE a[k]]

\* the value of a local that is not bound yet
Unbound == <<>>

NoResult == [unbound |-> <<>>]


\* ------------------------------------------------- collaborators (not in src)
\* the payload the dataset yields for its k-th task
Problem(k) ==
    IF k % 2 = 1
    THEN [question |-> <<"q", TaskName[k]>>, completion |-> <<"gold">>]
    ELSE [question |-> <<"q", TaskName[k]>>, task_id |-> TaskName[k]]

\* llm_provider.model.get_formatted_prompt(problem, dataset), when it returns
get_formatted_prompt(problem) == <<"Complete:">> \o problem.question

\* extract_code(raw_response): the text between the first two delimiters,
\* the text unchanged when there is no delimited block
extract_code(raw) ==
    LET fences == { k \in DOMAIN raw : raw[k] = Fence }
        first  == CHOOSE k \in fences : \A m \in fences : k <= m
        second == CHOOSE k \in fences \ {first} : \A m \in fences \ {first} : k <= m
    IN  IF Cardinality(fences) >= 2 THEN SubSeq(raw, first + 1, second - 1) ELSE raw

\* load_existing_jsonl(out_path): no file gives the empty list
load_existing_jsonl(exists, objects) == IF exists THEN objects ELSE <<>>

\* write_jsonl(out_path, results): the file holds one line per element
write_jsonl(objects) == objects

\* ------------------------------------------------------- the script's code
exising_task_ids_Empty(res) == {}

\* {result["task_id"] for result in results if "task_id" in result}
ExistingTaskIds(res) ==
    { res[k].task_id : k \in { m \in DOMAIN res : "task_id" \in DOMAIN res[m] } }

IsCodegen_TwoSets(p) == p \in {"human-eval", "leetcode"}

\* args.pset in ["human-eval", "leetcode", "leetcode-msft-sparks"]
IsCodegen(p) == p \in {"human-eval", "leetcode", "leetcode-msft-sparks"}

Result_RawOverwritten(problem, task_id, comp, raw, pr) ==
    DictMerge(problem, [task_id |-> task_id, completion |-> comp,
                        raw_completion |-> comp, actual_prompt |-> pr])

\* {**problem, "task_id": ..., "completion": ..., "raw_completion": ...,
\*  "actual_prompt": ...}
SuccessResult(problem, task_id, comp, raw, pr) ==
    DictMerge(problem, [task_id |-> task_id, completion |-> comp,
                        raw_completion |-> raw, actual_prompt |-> pr])

Sentinel == <<"Error encountered">>

ErrorResult(problem, task_id, pr) ==
    DictMerge(problem, [task_id |-> task_id, completion |-> Sentinel,
                        raw_completion |-> Sentinel, actual_prompt |-> pr])

\* ------------------------------------------------------------------- Init
\* records a results file may hold before the first run: results of earlier
\* runs and a hand-written line without task_id
InitRecords ==
    { SuccessResult(Problem(k), TaskName[k], <<"old">>, <<"old raw">>,
                    get_formatted_prompt(Problem(k))) : k \in 1..MaxTasks }
    \cup { [note |-> <<"hand-written">>] }

InitFiles == UNION { [1..n -> InitRecords] : n \in 0..MaxFile }

\* the dataset yields its first n tasks, in dataset order
Dataset(n) == [k \in 1..n |-> <<TaskName[k], Problem(k)>>]

PathIdle ==
    /\ ppc = "idle"
    /\ args = [provider |-> <<>>, pset |-> <<>>, model |-> <<>>,
               temperature |-> <<>>, quantization |-> <<>>,
               py_interpreter |-> FALSE, output_file_name |-> <<>>]
    /\ version = <<>>
    /\ dirExists = FALSE
    /\ out_path = <<>>

Init ==
    /\ pset \in Psets
    /\ \E n \in 0..MaxTasks :
          /\ dataset = Dataset(n)
          /\ badPrompt \in SUBSET { TaskName[k] : k \in 1..n }
    /\ fileExists \in BOOLEAN
    /\ file \in (IF fileExists THEN InitFiles ELSE {<<>>})
    /\ file0 = file
    /\ pc = "start"
    /\ results = <<>>
    /\ exising_task_ids = {}
    /\ i = 1
    /\ prompt = Unbound /\ raw_completion = Unbound /\ completion = Unbound
    /\ result = NoResult
    /\ loaded = <<>>
    /\ existsAtStart = fileExists
    /\ prompts = <<>>
    /\ calls = <<>>
    /\ writes = 0
    /\ run = "first"
    /\ prevFailed = {}
    /\ everOk = {}
    /\ PathIdle

\* ---------------------------------------------------------------- actions
task_id == dataset[i][1]
problem == dataset[i][2]

inputs == <<pset, dataset, badPrompt, file0>>
locals == <<prompt, raw_completion, completion, result>>
history == <<run, prevFailed, everOk>>

Load_IgnoresFile ==
    /\ pc = "start"
    /\ results' = <<>>
    /\ exising_task_ids' = {}
    /\ loaded' = load_existing_jsonl(fileExists, file)
    /\ existsAtStart' = fileExists
    /\ pc' = "loop"
    /\ UNCHANGED <<inputs, fileExists, file, i, locals, prompts, calls, writes,
                   history, pathVars>>

\* lines 88-91
Load ==
    /\ pc = "start"
    /\ results' = load_existing_jsonl(fileExists, file)
    /\ exising_task_ids' = ExistingTaskIds(results')
    /\ loaded' = results'
    /\ existsAtStart' = fileExists
    /\ pc' = "loop"
    /\ UNCHANGED <<inputs, fileExists, file, i, locals, prompts, calls, writes,
                   history, pathVars>>

\* lines 94-99: the task is in the store
Skip ==
    /\ pc = "loop"
    /\ i <= Len(dataset)
    /\ task_id \in exising_task_ids
    /\ i' = i + 1
    /\ UNCHANGED <<inputs, fileExists, file, pc, results, exising_task_ids,
                   locals, loaded, existsAtStart, prompts, calls, writes,
                   history, pathVars>>

\* line 101, the formatter returns
FormatPrompt ==
    /\ pc = "loop"
    /\ i <= Len(dataset)
    /\ task_id \notin exising_task_ids
    /\ task_id \notin badPrompt
    /\ prompts' = Append(prompts, task_id)
    /\ prompt' = get_formatted_prompt(problem)
    /\ pc' = "try"
    /\ UNCHANGED <<inputs, fileExists, file, results, exising_task_ids, i,
                   raw_completion, completion, result, loaded, existsAtStart,
                   calls, writes, history, pathVars>>

FormatPromptRaises_Caught ==
    /\ pc = "loop"
    /\ i <= Len(dataset)
    /\ task_id \notin exising_task_ids
    /\ task_id \in badPrompt
    /\ prompts' = Append(prompts, task_id)
    /\ result' = ErrorResult(problem, task_id, prompt)
    /\ pc' = "write"
    /\ UNCHANGED <<inputs, fileExists, file, results, exising_task_ids, i,
                   prompt, raw_completion, completion, loaded, existsAtStart,
                   calls, writes, history, pathVars>>

\* line 101, the formatter raises: the statement is in no try block
FormatPromptRaises ==
    /\ pc = "loop"
    /\ i <= Len(dataset)
    /\ task_id \notin exising_task_ids
    /\ task_id \in badPrompt
    /\ prompts' = Append(prompts, task_id)
    /\ pc' = "raised"
    /\ UNCHANGED <<inputs, fileExists, file, results, exising_task_ids, i,
                   locals, loaded, existsAtStart, calls, writes, history,
                   pathVars>>

\* lines 104-121: get_completion returns
CompletionOk ==
    /\ pc = "try"
    /\ \E raw \in RawOutputs :
          /\ raw_completion' = raw
          /\ completion' = IF IsCodegen(pset) THEN extract_code(raw) ELSE raw
          /\ calls' = Append(calls, [task_id |-> task_id, ok |-> TRUE,
                                     raw |-> raw, prompt |-> prompt])
    /\ result' = SuccessResult(problem, task_id, completion', raw_completion', prompt)
    /\ results' = Append(results, result')
    /\ pc' = "write"
    /\ UNCHANGED <<inputs, fileExists, file, exising_task_ids, i, prompt,
                   loaded, existsAtStart, prompts, writes, history, pathVars>>

CompletionRaises_Uncaught ==
    /\ pc = "try"
    /\ calls' = Append(calls, [task_id |-> task_id, ok |-> FALSE,
                               raw |-> <<>>, prompt |-> prompt])
    /\ pc' = "raised"
    /\ UNCHANGED <<inputs, fileExists, file, results, exising_task_ids, i,
                   locals, loaded, existsAtStart, prompts, writes, history,
                   pathVars>>

CompletionRaises_Appends ==
    /\ pc = "try"
    /\ calls' = Append(calls, [task_id |-> task_id, ok |-> FALSE,
                               raw |-> <<>>, prompt |-> prompt])
    /\ result' = ErrorResult(problem, task_id, prompt)
    /\ results' = Append(results, result')
    /\ pc' = "write"
    /\ UNCHANGED <<inputs, fileExists, file, exising_task_ids, i, prompt,
                   raw_completion, completion, loaded, existsAtStart, prompts,
                   writes, history, pathVars>>

\* lines 104-105, 123-134: get_completion raises
CompletionRaises ==
    /\ pc = "try"
    /\ calls' = Append(calls, [task_id |-> task_id, ok |-> FALSE,
                               raw |-> <<>>, prompt |-> prompt])
    /\ result' = ErrorResult(problem, task_id, prompt)
    /\ pc' = "write"
    /\ UNCHANGED <<inputs, fileExists, file, results, exising_task_ids, i,
                   prompt, raw_completion, completion, loaded, existsAtStart,
                   prompts, writes, history, pathVars>>

Write_AppendsLast ==
    /\ pc = "write"
    /\ file' = file \o <<result>>
    /\ fileExists' = TRUE
    /\ writes' = writes + 1
    /\ i' = i + 1
    /\ pc' = "loop"
    /\ UNCHANGED <<inputs, results, exising_task_ids, locals, loaded,
                   existsAtStart, prompts, calls, history, pathVars>>

Write_OnlyLast ==
    /\ pc = "write"
    /\ file' = <<result>>
    /\ fileExists' = TRUE
    /\ writes' = writes + 1
    /\ i' = i + 1
    /\ pc' = "loop"
    /\ UNCHANGED <<inputs, results, exising_task_ids, locals, loaded,
                   existsAtStart, prompts, calls, history, pathVars>>

\* line 136, and the loop moves on
Write ==
    /\ pc = "write"
    /\ file' = write_jsonl(results)
    /\ fileExists' = TRUE
    /\ writes' = writes + 1
    /\ i' = i + 1
    /\ pc' = "loop"
    /\ UNCHANGED <<inputs, results, exising_task_ids, locals, loaded,
                   existsAtStart, prompts, calls, history, pathVars>>

\* line 94: the generator is exhausted, the script ends
Finish ==
    /\ pc = "loop"
    /\ i > Len(dataset)
    /\ pc' = "done"
    /\ UNCHANGED <<inputs, fileExists, file, results, exising_task_ids, i,
                   locals, loaded, existsAtStart, prompts, calls, writes,
                   history, pathVars>>

OkIds == { calls[k].task_id : k \in { m \in DOMAIN calls : calls[m].ok } }
FailedIds == { calls[k].task_id : k \in { m \in DOMAIN calls : ~calls[m].ok } }

\* the harness is started again on the same output file and dataset
Rerun ==
    /\ pc \in {"done", "raised"}
    /\ pc' = "start"
    /\ results' = <<>>
    /\ exising_task_ids' = {}
    /\ i' = 1
    /\ prompt' = Unbound /\ raw_completion' = Unbound /\ completion' = Unbound
    /\ result' = NoResult
    /\ loaded' = <<>>
    /\ existsAtStart' = fileExists
    /\ prompts' = <<>>
    /\ calls' = <<>>
    /\ writes' = 0
    /\ run' = "later"
    /\ prevFailed' = FailedIds
    /\ everOk' = everOk \cup OkIds
    /\ UNCHANGED <<inputs, fileExists, file, pathVars>>

Next ==
    \/ Load
    \/ Skip
    \/ FormatPrompt
    \/ FormatPromptRaises
    \/ CompletionOk
    \/ CompletionRaises
    \/ Write
    \/ Finish
    \/ Rerun

Spec == Init /\ [][Next]_vars


\* ======================================================= get_output_path
\* a file name is a sequence of characters, a path a sequence of components
JsonlExt == <<".", "j", "s", "o", "n", "l">>

PyInterpreterSegment ==
    <<"_", "p", "y", "-", "i", "n", "t", "e", "r", "p", "r", "e", "t", "e", "r">>

RootDir == <<"<root>">>
ResultsDir == <<"r", "e", "s", "u", "l", "t", "s">>

\* str.rstrip(chars): drops every trailing character that is one of chars
RECURSIVE rstrip(_, _)
rstrip(s, chars) ==
    IF s # <<>> /\ s[Len(s)] \in Range(chars)
    THEN rstrip(SubSeq(s, 1, Len(s) - 1), chars)
    ELSE s

\* OUTPUT_FILE_NAME.format(PROVIDER=..., pset=..., MODEL=..., TEMPERATURE=...,
\* QUANTIZATION=..., VERSION=...): the fields in this order, then the extension
OUTPUT_FILE_NAME_format(a, ver) ==
    a.provider \o <<"_">> \o a.pset \o <<"_", "_">> \o a.model \o <<"_", "_">>
    \o a.temperature \o <<"_", "_">> \o a.quantization \o <<"_", "_">> \o ver
    \o JsonlExt

\* lines 25-31
output_dir(a) == <<RootDir, ResultsDir, a.provider, a.pset, a.model>>

\* lines 36-49
output_file_name(a, ver) ==
    rstrip(OUTPUT_FILE_NAME_format(a, ver), JsonlExt)
    \o (IF a.py_interpreter THEN PyInterpreterSegment ELSE <<>>)
    \o JsonlExt

\* args.output_file_name or output_file_name
ChosenName(a, ver) ==
    IF a.output_file_name.given /\ a.output_file_name.name # <<>>
    THEN a.output_file_name.name
    ELSE output_file_name(a, ver)

VerChars == {"1", ".", "l"}
Versions == UNION { [1..n -> VerChars] : n \in 0..MaxVerLen }

CustomNames ==
    { [given |-> FALSE, name |-> <<>>],
      [given |-> TRUE,  name |-> <<>>],
      [given |-> TRUE,  name |-> <<"o", "u", "t", ".", "j", "s", "o", "n", "l">>] }

RunnerIdle ==
    /\ pset = "human-eval"
    /\ dataset = <<>>
    /\ badPrompt = {}
    /\ fileExists = FALSE
    /\ file = <<>>
    /\ file0 = <<>>
    /\ pc = "idle"
    /\ results = <<>>
    /\ exising_task_ids = {}
    /\ i = 1
    /\ prompt = Unbound /\ raw_completion = Unbound /\ completion = Unbound
    /\ result = NoResult
    /\ loaded = <<>>
    /\ existsAtStart = FALSE
    /\ prompts = <<>>
    /\ calls = <<>>
    /\ writes = 0
    /\ run = "first"
    /\ prevFailed = {}
    /\ everOk = {}

PathInit ==
    /\ RunnerIdle
    /\ ppc = "call"
    /\ args \in [provider : {<<"o", "a", "i">>, <<"h", "f">>},
                 pset : {<<"m", "a", "t", "h">>},
                 model : {<<"g", "p", "t", "-", "4">>},
                 temperature : {<<"0", ".", "7">>, <<"1">>},
                 quantization : {<<"f", "1", "6">>},
                 py_interpreter : BOOLEAN,
                 output_file_name : CustomNames]
    /\ version \in Versions
    /\ dirExists \in BOOLEAN
    /\ out_path = <<>>

\* lines 22-51
GetOutputPath ==
    /\ ppc = "call"
    /\ dirExists' = TRUE
    /\ out_path' = Append(output_dir(args), ChosenName(args, version))
    /\ ppc' = "returned"
    /\ UNCHANGED <<args, version, runnerVars>>

PathNext == GetOutputPath

PathSpec == PathInit /\ [][PathNext]_vars


\* =============================================================== properties
\* what the file at out_path holds, no file counting as no record
FileContent == IF fileExists THEN file ELSE <<>>

\* the task_ids carried by the records of a sequence
StoredIds(seq) ==
    { r.task_id : r \in { x \in Range(seq) : "task_id" \in DOMAIN x } }

DatasetIds == [k \in DOMAIN dataset |-> dataset[k][1]]
CallIds == [k \in DOMAIN calls |-> calls[k].task_id]

NotLoaded(id) == id \notin StoredIds(loaded)
\* the tasks of the dataset the loaded store does not hold, in dataset order
Pending == SelectSeq(DatasetIds, NotLoaded)

IsPrefix(s, t) == Len(s) <= Len(t) /\ s = SubSeq(t, 1, Len(s))

LastCallFailed == calls # <<>> /\ ~calls[Len(calls)].ok

HasRecordFor(seq, id) ==
    \E k \in DOMAIN seq : "task_id" \in DOMAIN seq[k] /\ seq[k].task_id = id

CountFor(seq, id) ==
    Cardinality({ k \in DOMAIN seq :
                    "task_id" \in DOMAIN seq[k] /\ seq[k].task_id = id })

ProblemOf(id) == dataset[CHOOSE k \in DOMAIN dataset : dataset[k][1] = id][2]

ResultKeys == {"task_id", "completion", "raw_completion", "actual_prompt"}

\* C1: no prompt is built and no get_completion call is made for a task whose
\* task_id is carried by a record of the loaded results file.
C1_NoCallForStored ==
    pc # "start" =>
        /\ \A k \in DOMAIN calls : calls[k].task_id \notin StoredIds(loaded)
        /\ \A k \in DOMAIN prompts : prompts[k] \notin StoredIds(loaded)
        /\ run = "first" => loaded = (IF existsAtStart THEN file0 ELSE <<>>)

C1_Witness ==
    /\ pc = "done"
    /\ \E k \in DOMAIN dataset : dataset[k][1] \in StoredIds(loaded)
    /\ calls # <<>>

C4_FailedNotPersisted ==
    /\ \A id \in FailedIds \cup (Range(prompts) \cap badPrompt) :
          /\ ~HasRecordFor(results, id)
          /\ ~HasRecordFor(FileContent, id)
    /\ (pc = "write" /\ LastCallFailed) =>
          /\ result.task_id = calls[Len(calls)].task_id
          /\ result.completion = <<"Error encountered">>
          /\ result.raw_completion = <<"Error encountered">>
          /\ results = FileContent
    /\ (pc = "loop" /\ LastCallFailed) => FileContent = results

C4_Witness ==
    /\ pc = "loop"
    /\ LastCallFailed
    /\ writes = Len(calls)
    /\ Len(file) >= 1

\* C5: at every loop boundary the file, no file counting as the empty
\* sequence, holds exactly the in-memory results, and one write was made for
\* every task that was not skipped.
C5_Checkpoint ==
    pc \in {"loop", "done"} =>
        /\ FileContent = results
        /\ writes = Len(calls)

C5_Witness ==
    /\ pc = "loop"
    /\ writes >= 2
    /\ Len(loaded) >= 1
    /\ Len(results) > Len(loaded)
    /\ FailedIds # {}

OkCalls == SelectSeq(calls, LAMBDA c : c.ok)

\* C6: once a run has written the file, the file is the loaded records,
\* unchanged and in order, followed by one record per task whose
\* get_completion returned, in dataset order; a new record has the problem's
\* fields plus task_id, completion, raw_completion (the provider's output) and
\* actual_prompt (the prompt sent).
C6_FileContent ==
    (writes >= 1 /\ pc # "write") =>
        /\ Len(file) = Len(loaded) + Len(OkCalls)
        /\ SubSeq(file, 1, Len(loaded)) = loaded
        /\ run = "first" => loaded = (IF existsAtStart THEN file0 ELSE <<>>)
        /\ [k \in DOMAIN OkCalls |-> OkCalls[k].task_id]
              = SelectSeq(DatasetIds, LAMBDA id : id \in OkIds)
        /\ \A k \in DOMAIN OkCalls :
              LET r == file[Len(loaded) + k]
                  c == OkCalls[k]
                  p == ProblemOf(c.task_id)
              IN  /\ DOMAIN r = (DOMAIN p) \cup ResultKeys
                  /\ r.task_id = c.task_id
                  /\ r.raw_completion = c.raw
                  /\ r.actual_prompt = c.prompt
                  /\ \A f \in (DOMAIN p) \ ResultKeys : r[f] = p[f]

C6_Witness ==
    /\ pc = "done"
    /\ writes >= 2
    /\ \E k \in DOMAIN loaded : "task_id" \notin DOMAIN loaded[k]
    /\ OkIds # {}
    /\ FailedIds # {}

\* C7: the completion stored for a successful task is extract_code of the
\* provider's output on human-eval, leetcode and leetcode-msft-sparks and the
\* output itself on every other problem set; raw_completion is the output.
C7_ExtractionOnCodegen ==
    /\ Len(results) = Len(loaded) + Len(OkCalls)
    /\ \A k \in DOMAIN OkCalls :
          LET r == results[Len(loaded) + k]
              raw == OkCalls[k].raw
          IN  /\ r.raw_completion = raw
              /\ r.completion =
                    IF pset \in {"human-eval", "leetcode", "leetcode-msft-sparks"}
                    THEN extract_code(raw) ELSE raw

C7_Witness ==
    /\ pset = "leetcode-msft-sparks"
    /\ pc = "done"
    /\ \E k \in DOMAIN results :
          /\ k > Len(loaded)
          /\ results[k].completion = <<"print(1)">>
          /\ results[k].raw_completion # results[k].completion

\* C8: with an empty dataset no prompt is built, no provider call and no
\* write is made, the run does not raise, the results are the loaded records
\* and the file stays as it was (absent or with the same content).
C8_EmptyDataset ==
    Len(dataset) = 0 =>
        /\ pc # "raised"
        /\ calls = <<>> /\ prompts = <<>> /\ writes = 0
        /\ file = file0
        /\ fileExists = existsAtStart
        /\ pc \in {"loop", "done"} => results = FileContent

C8_Witness ==
    /\ Len(dataset) = 0
    /\ pc = "done"
    /\ Len(file) >= 1


\* ------------------------------------------------------ repeated runs (C9)
\* runs are repeated for ever and every task's call eventually succeeds
LiveSpec == Spec /\ WF_vars(Next) /\ SF_vars(CompletionOk)

C9_Retry ==
    \* a task that succeeded in an earlier run is not attempted again
    /\ \A k \in DOMAIN calls : calls[k].task_id \notin everOk
    \* a task that failed in the previous run is attempted by this one
    /\ (run = "later" /\ pc \in {"done", "raised"}) =>
          prevFailed \subseteq Range(CallIds)
    \* the runs add at most one record per task
    /\ \A id \in Range(DatasetIds) :
          CountFor(FileContent, id) <= IF CountFor(file0, id) = 0
                                       THEN 1 ELSE CountFor(file0, id)

\* every prompt can be built and the first file repeats no task_id
C9_Recoverable ==
    /\ badPrompt = {}
    /\ \A id \in Range(DatasetIds) : CountFor(file0, id) <= 1

C9_AllRecordedOnce ==
    \A id \in Range(DatasetIds) : CountFor(FileContent, id) = 1

RemoveJsonlSuffix(s) ==
    IF Len(s) >= Len(JsonlExt)
       /\ SubSeq(s, Len(s) - Len(JsonlExt) + 1, Len(s)) = JsonlExt
    THEN SubSeq(s, 1, Len(s) - Len(JsonlExt))
    ELSE s

\* C10: with no custom output file name the returned path is, inside
\* results/<provider>/<pset>/<model>/, the formatted OUTPUT_FILE_NAME with only
\* its trailing ".jsonl" removed, then "_py-interpreter" iff the interpreter
\* flag is set, then ".jsonl".
C10_NameKeepsStem ==
    (ppc = "returned" /\ ~args.output_file_name.given) =>
        /\ Len(out_path) = 6
        /\ SubSeq(out_path, 1, 5)
              = <<RootDir, ResultsDir, args.provider, args.pset, args.model>>
        /\ out_path[6] =
              RemoveJsonlSuffix(OUTPUT_FILE_NAME_format(args, version))
              \o (IF args.py_interpreter THEN PyInterpreterSegment ELSE <<>>)
              \o JsonlExt

====
